---- MODULE Spec2Model ----
(***************************************************************************)
(* Model of the Stellara staking contract                                  *)
(* (Contracts/contracts/staking/src/staking.rs) and of the cross-chain     *)
(* bridge (Contracts/contracts/cross_chain_bridge/src/lib.rs).             *)
(*                                                                         *)
(* The contract keeps its accounting in i128.  TLC's integers are 32 bits  *)
(* wide, so an i128 is modelled as a sign and a magnitude, the magnitude   *)
(* being a little-endian sequence of limbs in radix Base without leading   *)
(* zero limbs.  The checked_* operators compare against the real bounds    *)
(* of i128 (2^127 - 1 and -2^127).  u64 and u32 values (times, periods,    *)
(* multipliers) stay below 2^31 in every run and are plain integers.       *)
(***************************************************************************)
EXTENDS Integers, Sequences, FiniteSets

---------------------------------------------------------------------------
(* i128 arithmetic                                                         *)

Base == 10000

RECURSIVE MagTrim(_)
MagTrim(s) ==
  IF s = <<>> THEN s
  ELSE IF s[Len(s)] = 0 THEN MagTrim(SubSeq(s, 1, Len(s) - 1)) ELSE s

RECURSIVE MagOfNat(_)
MagOfNat(n) ==
  IF n = 0 THEN <<>> ELSE <<n % Base>> \o MagOfNat(n \div Base)

Limb(s, i) ==
  IF i <= Len(s) THEN s[i] ELSE 0

RECURSIVE MagCmpFrom(_, _, _)
MagCmpFrom(a, b, i) ==
  IF i = 0 THEN 0
  ELSE IF a[i] # b[i] THEN (IF a[i] < b[i] THEN -1 ELSE 1)
  ELSE MagCmpFrom(a, b, i - 1)

MagCmp(a, b) ==
  IF Len(a) # Len(b) THEN (IF Len(a) < Len(b) THEN -1 ELSE 1)
  ELSE MagCmpFrom(a, b, Len(a))

RECURSIVE MagAddFrom(_, _, _, _)
MagAddFrom(a, b, i, carry) ==
  IF i > Len(a) /\ i > Len(b)
  THEN (IF carry = 0 THEN <<>> ELSE <<carry>>)
  ELSE LET s == Limb(a, i) + Limb(b, i) + carry
       IN  <<s % Base>> \o MagAddFrom(a, b, i + 1, s \div Base)

MagAdd(a, b) ==
  MagAddFrom(a, b, 1, 0)

RECURSIVE MagSubFrom(_, _, _, _)
MagSubFrom(a, b, i, borrow) ==
  IF i > Len(a) THEN <<>>
  ELSE LET d == a[i] - Limb(b, i) - borrow
       IN  IF d < 0 THEN <<d + Base>> \o MagSubFrom(a, b, i + 1, 1)
           ELSE <<d>> \o MagSubFrom(a, b, i + 1, 0)

\* a - b for magnitudes with a >= b
MagSub(a, b) ==
  MagTrim(MagSubFrom(a, b, 1, 0))

RECURSIVE MagMulLimbFrom(_, _, _, _)
MagMulLimbFrom(a, d, i, carry) ==
  IF i > Len(a) THEN (IF carry = 0 THEN <<>> ELSE <<carry>>)
  ELSE LET p == a[i] * d + carry
       IN  <<p % Base>> \o MagMulLimbFrom(a, d, i + 1, p \div Base)

\* a * d for one limb d
MagMulLimb(a, d) ==
  IF d = 0 THEN <<>> ELSE MagMulLimbFrom(a, d, 1, 0)

MagShift(a) ==
  IF a = <<>> THEN a ELSE <<0>> \o a

RECURSIVE MagMulFrom(_, _, _)
MagMulFrom(a, b, i) ==
  IF i > Len(b) THEN <<>>
  ELSE MagAdd(MagMulLimb(a, b[i]), MagShift(MagMulFrom(a, b, i + 1)))

MagMul(a, b) ==
  MagMulFrom(a, b, 1)

\* the largest q in lo..hi with b * q <= r
RECURSIVE MagQuotDigit(_, _, _, _)
MagQuotDigit(r, b, lo, hi) ==
  IF lo = hi THEN lo
  ELSE LET mid == (lo + hi + 1) \div 2
       IN  IF MagCmp(MagMulLimb(b, mid), r) <= 0
           THEN MagQuotDigit(r, b, mid, hi)
           ELSE MagQuotDigit(r, b, lo, mid - 1)

\* long division of the limbs i..1 of a by b, r the running remainder
RECURSIVE MagDivFrom(_, _, _, _)
MagDivFrom(a, b, i, r) ==
  IF i = 0 THEN <<>>
  ELSE LET cur == MagTrim(<<a[i]>> \o r)
           q   == MagQuotDigit(cur, b, 0, Base - 1)
       IN  MagDivFrom(a, b, i - 1, MagSub(cur, MagMulLimb(b, q))) \o <<q>>

\* short division of the limbs i..1 of a by one limb d
RECURSIVE MagDivLimbFrom(_, _, _, _)
MagDivLimbFrom(a, d, i, rem) ==
  IF i = 0 THEN <<>>
  ELSE LET cur == rem * Base + a[i]
       IN  MagDivLimbFrom(a, d, i - 1, cur % d) \o <<cur \div d>>

\* floor(a / b) for magnitudes, b # 0: low zero limbs of b shift a, a
\* divisor of one limb is divided by directly, any other by long division
RECURSIVE MagDiv(_, _)
MagDiv(a, b) ==
  IF a = <<>> THEN <<>>
  ELSE IF Len(b) > 1 /\ b[1] = 0 THEN MagDiv(Tail(a), Tail(b))
  ELSE IF Len(b) = 1 THEN MagTrim(MagDivLimbFrom(a, b[1], Len(a), 0))
  ELSE MagTrim(MagDivFrom(a, b, Len(a), <<>>))

\* a signed value; zero is never negative
BigOf(neg, mag) ==
  [neg |-> neg /\ mag # <<>>, mag |-> mag]

\* the i128 with the value of the integer n
I128(n) ==
  IF n < 0 THEN BigOf(TRUE, MagOfNat(-n)) ELSE BigOf(FALSE, MagOfNat(n))

Zero == I128(0)

\* i128::MAX = 2^127 - 1 = 170141183460469231731687303715884105727
I128_MAX ==
  BigOf(FALSE, <<5727, 8410, 7158, 7303, 3168, 2317, 469, 8346, 1411, 170>>)

\* i128::MIN = -2^127
I128_MIN ==
  BigOf(TRUE, <<5728, 8410, 7158, 7303, 3168, 2317, 469, 8346, 1411, 170>>)

BigCmp(a, b) ==
  IF a.neg # b.neg THEN (IF a.neg THEN -1 ELSE 1)
  ELSE IF a.neg THEN MagCmp(b.mag, a.mag) ELSE MagCmp(a.mag, b.mag)

Lt(a, b) == BigCmp(a, b) < 0
Le(a, b) == BigCmp(a, b) <= 0

BigNeg(a) ==
  BigOf(~a.neg, a.mag)

BigAdd(a, b) ==
  IF a.neg = b.neg THEN BigOf(a.neg, MagAdd(a.mag, b.mag))
  ELSE IF MagCmp(a.mag, b.mag) >= 0 THEN BigOf(a.neg, MagSub(a.mag, b.mag))
  ELSE BigOf(b.neg, MagSub(b.mag, a.mag))

BigSub(a, b) ==
  BigAdd(a, BigNeg(b))

BigMul(a, b) ==
  BigOf(a.neg # b.neg, MagMul(a.mag, b.mag))

\* i128 `/`: truncates toward zero; b # 0
BigDiv(a, b) ==
  BigOf(a.neg # b.neg, MagDiv(a.mag, b.mag))

BigMax(a, b) ==
  IF Lt(a, b) THEN b ELSE a

InI128(x) ==
  Le(I128_MIN, x) /\ Le(x, I128_MAX)

\* Option<T>: None is <<>>, Some(v) is <<v>>
None == <<>>
Some(v) == <<v>>

\* the result of a checked operation: None when r is no i128
checked(r) ==
  IF InI128(r) THEN Some(r) ELSE None

\* i128::checked_add / checked_sub / checked_mul: None on overflow
checked_add(a, b) == checked(BigAdd(a, b))

checked_sub(a, b) == checked(BigSub(a, b))

saturating_mul(a, b) ==
  IF Lt(I128_MAX, BigMul(a, b)) THEN Some(I128_MAX)
  ELSE IF Lt(BigMul(a, b), I128_MIN) THEN Some(I128_MIN)
  ELSE Some(BigMul(a, b))

checked_mul(a, b) == checked(BigMul(a, b))

\* Option::map(|v| v / d)
div_some(m, d) ==
  IF m = None THEN None ELSE Some(BigDiv(m[1], d))

\* Option::and_then(|v| v.checked_mul(b))
and_then_mul(m, b) ==
  IF m = None THEN None ELSE checked_mul(m[1], b)

\* Option::and_then(|v| v.checked_sub(b))
and_then_sub(m, b) ==
  IF m = None THEN None ELSE checked_sub(m[1], b)

---------------------------------------------------------------------------
(* Addresses, inputs and bounds                                            *)

Admin    == "admin"
Users    == {"u1", "u2"}
Contract == "contract"
Token    == "token"

\* lock periods in seconds (get_reward_multiplier)
LOCK_30_DAYS  == 30 * 24 * 60 * 60
LOCK_90_DAYS  == 90 * 24 * 60 * 60
LOCK_180_DAYS == 180 * 24 * 60 * 60
LOCK_365_DAYS == 365 * 24 * 60 * 60

\* the ledger clock advances at most MaxTicks times
MaxTicks == 1

\* the steps by which the ledger clock advances: 1000 seconds, half of the
\* shortest lock period (two of four vesting periods), and all of it
TimeSteps == {1000, LOCK_30_DAYS \div 2, LOCK_30_DAYS}

\* arguments tried for initialize: <<reward_rate, min_stake, max_stake>>
InitArgs ==
  { <<I128(1000000000), I128(100), I128(1000000)>>,
    <<I128(-1), I128(100), I128(1000000)>>,
    <<I128(1000000000), I128(-1), I128(1000000)>>,
    <<I128(1000000000), I128(100), I128(100)>> }

InitBonus == 10

\* arguments tried for update_pool: <<reward_rate, bonus_multiplier>>
UpdateArgs ==
  { <<None, None>>, <<Some(I128(0)), Some(20)>>, <<Some(I128(-1)), Some(20)>> }

\* arguments tried for stake, per user:
\* <<amount, lock_period, vesting_periods>>
StakeArgs(u) ==
  IF u = "u1"
  THEN { <<I128(1000), LOCK_30_DAYS, Some(4)>>,
         <<I128(1000), LOCK_90_DAYS, None>>,
         <<I128(99), LOCK_30_DAYS, None>>,
         <<I128(1000001), LOCK_30_DAYS, None>>,
         <<I128(1000), LOCK_30_DAYS + 1, None>>,
         <<I128(1000), 45 * 24 * 60 * 60, Some(4)>>,
         <<I128(99), 45 * 24 * 60 * 60, None>> }
  ELSE { <<I128(1000000), LOCK_365_DAYS, None>>,
         <<I128(1000000), LOCK_180_DAYS, Some(LOCK_180_DAYS + 1)>>,
         <<I128(1000000), LOCK_365_DAYS, Some(0)>>,
         <<I128(1000000), LOCK_30_DAYS - 1, None>>,
         <<I128(3000000), LOCK_365_DAYS, None>> }

\* token balances when the contract is deployed; the contract holds a
\* reserve from which rewards are paid
InitialUserBalance == I128(2000000)
RewardReserve      == I128(2000000)

---------------------------------------------------------------------------
(* State                                                                   *)

VARIABLES
  admin,      \* storage "admin": Option<Address>
  pool,       \* storage "pool": Option<StakingPool>
  emergency,  \* storage "emergency": Option<bool>
  positions,  \* storage ("position", user): Option<StakingPosition> per user
  balance,    \* the token ledger: balance of every holder
  now,        \* env.ledger().timestamp()
  ticks,      \* how often the clock has advanced
  call,       \* the last invocation: its entry point, its user and its outcome
  bridge_admin,      \* CrossChainBridge DataKey::Admin: Option<Address>
  validator_pubkey,  \* CrossChainBridge DataKey::ValidatorPubkey
  nonces,            \* CrossChainBridge DataKey::Nonce(user): Option<i128>
  accepted           \* per user, the nonces process_payload has accepted

vars == <<admin, pool, emergency, positions, balance, now, ticks, call,
          bridge_admin, validator_pubkey, nonces, accepted>>

store == <<admin, pool, emergency, positions, balance>>

\* the storage of the cross-chain bridge, a contract of its own, and the
\* record of what it accepted
bridge == <<bridge_admin, validator_pubkey, nonces, accepted>>

Holders == Users \cup {Admin, Contract}

---------------------------------------------------------------------------
(* storage module                                                          *)

has_admin_never == FALSE

has_admin == admin # None

get_emergency_mode == IF emergency = None THEN FALSE ELSE emergency[1]

has_staking_position_always_false(user) == FALSE

has_staking_position(user) == positions[user] # None

get_staking_position(user) == positions[user]

---------------------------------------------------------------------------
(* token::Client                                                           *)

\* transfer succeeds iff the amount is not negative, the sender holds it and
\* the receiver's balance stays an i128
can_transfer(bal, from, to, amount) ==
  /\ ~amount.neg
  /\ Le(amount, bal[from])
  /\ (from = to \/ checked_add(bal[to], amount) # None)

transfer(bal, from, to, amount) ==
  IF from = to THEN bal
  ELSE [bal EXCEPT ![from] = BigSub(bal[from], amount),
                   ![to]   = BigAdd(bal[to], amount)]

---------------------------------------------------------------------------
(* Reward calculation                                                      *)

get_reward_multiplier_with_tolerance(lock_period) ==
  IF lock_period >= LOCK_365_DAYS THEN 300
  ELSE IF lock_period >= LOCK_180_DAYS THEN 200
  ELSE IF lock_period >= LOCK_90_DAYS THEN 150
  ELSE IF lock_period >= LOCK_30_DAYS THEN 100
  ELSE 0

get_reward_multiplier(lock_period) ==
  IF lock_period = LOCK_30_DAYS THEN 100
  ELSE IF lock_period = LOCK_90_DAYS THEN 150
  ELSE IF lock_period = LOCK_180_DAYS THEN 200
  ELSE IF lock_period = LOCK_365_DAYS THEN 300
  ELSE 0

\* 1_000_000_000 as i128: the divisor of the per-second rate
RateScale == I128(1000000000)

\* reward_rate.checked_mul(amount).expect(..).checked_mul(time).expect(..)
\* / 1_000_000_000; None when an expect panics
base_rewards_of(pl, position, time_since_last_reward) ==
  div_some(and_then_mul(checked_mul(pl.reward_rate, position.amount),
                        I128(time_since_last_reward)),
           RateScale)

bonus_rewards_full_multiplier(position, base_rewards) ==
  div_some(checked_mul(base_rewards, I128(position.reward_multiplier)),
           I128(100))

\* base_rewards.checked_mul(bonus_multiplier - 100).expect(..) / 100
bonus_rewards_of(position, base_rewards) ==
  div_some(checked_mul(base_rewards, I128(position.reward_multiplier - 100)),
           I128(100))

\* total_rewards * vesting_cliff_percentage / 10000, 0 before the first
\* period completes
cliff_amount_of(position, total_rewards, periods_completed) ==
  IF periods_completed = 0 THEN Some(Zero)
  ELSE div_some(checked_mul(total_rewards,
                            I128(position.vesting_cliff_percentage)),
                I128(10000))

\* total_rewards * min(periods_completed, max_periods) / max_periods
vested_amount_of(total_rewards, periods_completed, max_periods) ==
  div_some(checked_mul(total_rewards,
                       I128(IF periods_completed < max_periods
                            THEN periods_completed ELSE max_periods)),
           I128(max_periods))

\* core::cmp::max(cliff_amount, vested_amount)
max_some(cliff, vested) ==
  IF cliff = None \/ vested = None THEN None
  ELSE Some(BigMax(cliff[1], vested[1]))

vesting_amount_cliff_only(position, total_rewards, total_time_staked) ==
  IF ~position.has_vesting THEN Some(total_rewards)
  ELSE IF position.vesting_period_duration = 0 THEN None
  ELSE cliff_amount_of(position, total_rewards,
         total_time_staked \div position.vesting_period_duration)

\* the vesting_amount of calculate_rewards; None when the division by
\* vesting_period_duration or an expect panics
vesting_amount_of(position, total_rewards, total_time_staked) ==
  IF ~position.has_vesting THEN Some(total_rewards)
  ELSE IF position.vesting_period_duration = 0 THEN None
  ELSE IF total_time_staked \div position.vesting_period_duration
            >= position.vesting_total_periods
       THEN Some(total_rewards)
  ELSE max_some(
         cliff_amount_of(position, total_rewards,
           total_time_staked \div position.vesting_period_duration),
         vested_amount_of(total_rewards,
           total_time_staked \div position.vesting_period_duration,
           position.vesting_total_periods))

\* u64::saturating_sub
saturating_sub(a, b) ==
  IF a < b THEN 0 ELSE a - b

time_since_last_reward_abs(position, current_time) ==
  IF current_time < position.last_reward_time
  THEN position.last_reward_time - current_time
  ELSE current_time - position.last_reward_time

\* current_time.saturating_sub(position.last_reward_time)
time_since_last_reward_of(position, current_time) ==
  saturating_sub(current_time, position.last_reward_time)

\* the RewardCalculation, once vesting_amount is known
calc_result(base, bonus, total, vesting) ==
  IF vesting = None THEN None
  ELSE Some([base_rewards     |-> base,
             bonus_rewards    |-> bonus,
             total_rewards    |-> total,
             vesting_amount   |-> vesting[1],
             claimable_amount |-> vesting[1]])

\* calculate_rewards from total_rewards on
calc_from_total(position, total_time_staked, base, bonus, total) ==
  IF total = None THEN None
  ELSE calc_result(base, bonus, total[1],
                   vesting_amount_of(position, total[1], total_time_staked))

\* calculate_rewards from bonus_rewards on
calc_from_bonus(position, total_time_staked, base, bonus) ==
  IF bonus = None THEN None
  ELSE calc_from_total(position, total_time_staked, base, bonus[1],
                       checked_add(base, bonus[1]))

\* calculate_rewards from base_rewards on
calc_from_base(position, total_time_staked, base) ==
  IF base = None THEN None
  ELSE calc_from_bonus(position, total_time_staked, base[1],
                       bonus_rewards_of(position, base[1]))

\* calculate_rewards: Some(RewardCalculation), or None when it panics
calculate_rewards(position, pl, current_time) ==
  calc_from_base(position,
    saturating_sub(current_time, position.start_time),
    base_rewards_of(pl, position,
      time_since_last_reward_of(position, current_time)))

---------------------------------------------------------------------------
(* Outcome of an invocation                                                *)

\* status: "Ok" (returned Ok), "Err" (returned Err(err)), "Trap" (panicked:
\* the host discards the storage writes, transfers and events of the call);
\* steps: what the handler did, in program order, once its validations had
\* passed (filled in by Performed)
Outcome(op, user, status, err, value, events, transfers) ==
  [op |-> op, user |-> user, status |-> status, err |-> err,
   value |-> value, events |-> events, transfers |-> transfers,
   steps |-> <<>>]

\* the outcome of a handler that ran through the given steps, the last one
\* being the step that panicked when the status is "Trap"
Performed(steps, outcome) ==
  [outcome EXCEPT !.steps = steps]

Event(topic, addr, data) ==
  [topic |-> topic, addr |-> addr, data |-> data]

Transfer(from, to, amount) ==
  [from |-> from, to |-> to, amount |-> amount]

Returns_with_event(op, user, err) ==
  /\ call' = Outcome(op, user, "Err", err, None,
               <<Event("error", user, <<err>>)>>, <<>>)
  /\ UNCHANGED <<store, now, ticks, bridge>>

Returns(op, user, err) ==
  /\ call' = Outcome(op, user, "Err", err, None, <<>>, <<>>)
  /\ UNCHANGED <<store, now, ticks, bridge>>

Traps(op, user, why) ==
  /\ call' = Outcome(op, user, "Trap", why, None, <<>>, <<>>)
  /\ UNCHANGED <<store, now, ticks, bridge>>

\* a panic after the given steps
TrapsAfter(op, user, why, steps) ==
  /\ call' = Performed(steps, Outcome(op, user, "Trap", why, None, <<>>, <<>>))
  /\ UNCHANGED <<store, now, ticks, bridge>>

Reads(op, user, value) ==
  /\ call' = Outcome(op, user, "Ok", "", value, <<>>, <<>>)
  /\ UNCHANGED <<store, now, ticks, bridge>>

---------------------------------------------------------------------------
(* StakingContract                                                         *)

\* the bridge contract after registration: nothing stored
BridgeDeployed ==
  /\ bridge_admin = None
  /\ validator_pubkey = None
  /\ nonces = [u \in Users |-> None]
  /\ accepted = [u \in Users |-> <<>>]

Init ==
  /\ admin = None
  /\ pool = None
  /\ emergency = None
  /\ positions = [u \in Users |-> None]
  /\ balance = [h \in Holders |->
                  IF h \in Users THEN InitialUserBalance
                  ELSE IF h = Contract THEN RewardReserve ELSE Zero]
  /\ now = 0
  /\ ticks = 0
  /\ call = Outcome("deploy", Admin, "Ok", "", None, <<>>, <<>>)
  /\ BridgeDeployed

invalid_stake_bounds_allowing_equal(min_stake, max_stake) ==
  Lt(min_stake, Zero) \/ Lt(max_stake, min_stake)

\* min_stake < 0 || max_stake <= min_stake
invalid_stake_bounds(min_stake, max_stake) ==
  Lt(min_stake, Zero) \/ Le(max_stake, min_stake)

initialize(caller, a, token, reward_rate, bonus_multiplier, min_stake, max_stake) ==
  IF has_admin
      THEN Returns("initialize", a, "NotInitialized")
      ELSE IF caller # a
      THEN Traps("initialize", a, "require_auth")
      ELSE IF Lt(reward_rate, Zero)
      THEN Returns("initialize", a, "InvalidPoolConfig")
      ELSE IF invalid_stake_bounds(min_stake, max_stake)
      THEN Returns("initialize", a, "InvalidPoolConfig")
      ELSE
        /\ admin' = Some(a)
        /\ pool' = Some([token |-> token,
                         total_staked |-> Zero,
                         reward_rate |-> reward_rate,
                         bonus_multiplier |-> bonus_multiplier,
                         min_stake |-> min_stake,
                         max_stake |-> max_stake,
                         emergency_withdrawal_fee |-> 500])
        /\ emergency' = Some(FALSE)
        /\ call' = Outcome("initialize", a, "Ok", "", None,
                     <<Event("pool_initialized", a,
                             <<reward_rate, bonus_multiplier>>)>>, <<>>)
        /\ UNCHANGED <<positions, balance, now, ticks, bridge>>

\* the vesting values of a new position; None when lock_period / periods
\* divides by zero
stake_vesting(lock_period, vesting_periods) ==
  IF vesting_periods # None
  THEN IF vesting_periods[1] = 0 THEN None
       ELSE Some([has_vesting |-> TRUE,
                  vesting_total_periods |-> vesting_periods[1],
                  vesting_current_period |-> 0,
                  vesting_period_duration |->
                    lock_period \div vesting_periods[1],
                  vesting_cliff_percentage |-> 2500])
  ELSE Some([has_vesting |-> FALSE,
             vesting_total_periods |-> 0,
             vesting_current_period |-> 0,
             vesting_period_duration |-> 0,
             vesting_cliff_percentage |-> 0])

stake_total_staked_replaced(pl, amount) ==
  Some(amount)

\* total_staked.checked_add(amount)
stake_total_staked(pl, amount) ==
  checked_add(pl.total_staked, amount)

\* what stake does once its checks have passed, in program order
stake_steps ==
  <<"transfer", "checked_add", "set_staking_pool", "set_staking_position",
    "publish">>

\* stake from the balance check on: the transfer, the new position and the
\* pool total
stake_position(user, amount, lock_period, reward_multiplier, vesting, total) ==
  IF vesting = None
  THEN Traps("stake", user, "divide by zero")
  ELSE IF Lt(balance[user], amount)
  THEN Returns("stake", user, "InsufficientBalance")
  ELSE IF ~can_transfer(balance, user, Contract, amount)
  THEN TrapsAfter("stake", user, "transfer", <<"transfer">>)
  ELSE IF total = None
  THEN TrapsAfter("stake", user, "Overflow in total staked",
                  <<"transfer", "checked_add">>)
  ELSE
    /\ balance' = transfer(balance, user, Contract, amount)
    /\ pool' = Some([pool[1] EXCEPT !.total_staked = total[1]])
    /\ positions' =
         [positions EXCEPT ![user] =
            Some([user |-> user,
                  amount |-> amount,
                  start_time |-> now,
                  last_reward_time |-> now,
                  reward_multiplier |-> reward_multiplier,
                  lock_period |-> lock_period,
                  has_vesting |-> vesting[1].has_vesting,
                  vesting_total_periods |->
                    vesting[1].vesting_total_periods,
                  vesting_current_period |->
                    vesting[1].vesting_current_period,
                  vesting_period_duration |->
                    vesting[1].vesting_period_duration,
                  vesting_cliff_percentage |->
                    vesting[1].vesting_cliff_percentage])]
    /\ call' = Performed(stake_steps,
                 Outcome("stake", user, "Ok", "", None,
                   <<Event("staked", user,
                           <<amount, lock_period, reward_multiplier, now>>)>>,
                   <<Transfer(user, Contract, amount)>>))
    /\ UNCHANGED <<admin, emergency, now, ticks, bridge>>

stake(caller, user, amount, lock_period, vesting_periods) ==
  IF caller # user
  THEN Traps("stake", user, "require_auth")
  ELSE IF pool = None
  THEN Traps("stake", user, "unwrap")
  ELSE IF get_emergency_mode
  THEN Returns("stake", user, "EmergencyMode")
  ELSE IF Lt(amount, pool[1].min_stake) \/ Lt(pool[1].max_stake, amount)
  THEN Returns("stake", user, "InvalidAmount")
  ELSE IF get_reward_multiplier(lock_period) = 0
  THEN Returns("stake", user, "InvalidLockPeriod")
  ELSE IF has_staking_position(user)
  THEN Returns("stake", user, "AlreadyStaked")
  ELSE stake_position(user, amount, lock_period,
                      get_reward_multiplier(lock_period),
                      stake_vesting(lock_period, vesting_periods),
                      stake_total_staked(pool[1], amount))

\* time_staked < position.lock_period && !storage::get_emergency_mode(&env)
lock_period_not_expired(position, current_time) ==
  /\ saturating_sub(current_time, position.start_time) < position.lock_period
  /\ ~get_emergency_mode

unstake_fee_before_expiry(pl, position, current_time) ==
  IF saturating_sub(current_time, position.start_time) < position.lock_period
  THEN div_some(checked_mul(position.amount,
                            I128(pl.emergency_withdrawal_fee)),
                I128(10000))
  ELSE Some(Zero)

\* the early-withdrawal fee of unstake; None when its expect panics
unstake_fee(pl, position, current_time) ==
  IF lock_period_not_expired(position, current_time)
  THEN div_some(checked_mul(position.amount,
                            I128(pl.emergency_withdrawal_fee)),
                I128(10000))
  ELSE Some(Zero)

\* position.amount + claimable_amount - fee, both steps checked
unstake_total_amount(position, rewards, fee) ==
  and_then_sub(checked_add(position.amount, rewards.claimable_amount), fee)

unstake_total_staked_less_payout(pl, position, rewards) ==
  checked_sub(pl.total_staked,
              BigAdd(position.amount, rewards.claimable_amount))

\* total_staked.checked_sub(position.amount)
unstake_total_staked(pl, position, rewards) ==
  checked_sub(pl.total_staked, position.amount)

\* what unstake does once its checks have passed, in program order
unstake_steps ==
  <<"calculate_rewards", "checked_add", "transfer", "checked_sub",
    "set_staking_pool", "remove_staking_position", "publish">>

\* unstake from the payout on
unstake_payout(user, position, rewards, fee, total_amount, total) ==
  IF total_amount = None
  THEN TrapsAfter("unstake", user, "Total amount overflow",
                  <<"calculate_rewards", "checked_add">>)
  ELSE IF ~can_transfer(balance, Contract, user, total_amount[1])
  THEN TrapsAfter("unstake", user, "transfer",
                  <<"calculate_rewards", "checked_add", "transfer">>)
  ELSE IF total = None
  THEN TrapsAfter("unstake", user, "Underflow in total staked",
                  <<"calculate_rewards", "checked_add", "transfer",
                    "checked_sub">>)
  ELSE
    /\ balance' = transfer(balance, Contract, user, total_amount[1])
    /\ pool' = Some([pool[1] EXCEPT !.total_staked = total[1]])
    /\ positions' = [positions EXCEPT ![user] = None]
    /\ call' = Performed(unstake_steps,
                 Outcome("unstake", user, "Ok", "", rewards.claimable_amount,
                   <<Event("unstaked", user,
                           <<position.amount, rewards.claimable_amount,
                             fee, now>>)>>,
                   <<Transfer(Contract, user, total_amount[1])>>))
    /\ UNCHANGED <<admin, emergency, now, ticks, bridge>>

\* unstake from the fee on
unstake_charged(user, position, rewards, fee) ==
  IF fee = None
  THEN Traps("unstake", user, "Fee calculation overflow")
  ELSE unstake_payout(user, position, rewards, fee[1],
                      unstake_total_amount(position, rewards, fee[1]),
                      unstake_total_staked(pool[1], position, rewards))

\* unstake once the rewards are calculated
unstake_rewarded(user, position, rewards) ==
  IF rewards = None
  THEN TrapsAfter("unstake", user, "calculate_rewards",
                  <<"calculate_rewards">>)
  ELSE unstake_charged(user, position, rewards[1],
                       unstake_fee(pool[1], position, now))

unstake(caller, user) ==
  IF caller # user
  THEN Traps("unstake", user, "require_auth")
  ELSE IF pool = None
  THEN Traps("unstake", user, "unwrap")
  ELSE IF get_staking_position(user) = None
  THEN Returns("unstake", user, "NotStaked")
  ELSE IF lock_period_not_expired(get_staking_position(user)[1], now)
  THEN Returns("unstake", user, "LockPeriodNotExpired")
  ELSE unstake_rewarded(user, get_staking_position(user)[1],
         calculate_rewards(get_staking_position(user)[1], pool[1], now))

claimed_position_counting_periods(position, current_time) ==
  [position EXCEPT
     !.last_reward_time = current_time,
     !.vesting_current_period =
        IF ~position.has_vesting THEN position.vesting_current_period
        ELSE IF saturating_sub(current_time, position.start_time)
                  \div position.vesting_period_duration
                  < position.vesting_total_periods
        THEN saturating_sub(current_time, position.start_time)
               \div position.vesting_period_duration
        ELSE position.vesting_total_periods]

claimed_position_keeping_time(position, current_time) ==
  [position EXCEPT
     !.vesting_current_period =
        IF position.has_vesting
           /\ position.vesting_current_period < position.vesting_total_periods
        THEN position.vesting_current_period + 1
        ELSE position.vesting_current_period]

\* the position claim_rewards stores after paying
claimed_position(position, current_time) ==
  [position EXCEPT
     !.last_reward_time = current_time,
     !.vesting_current_period =
        IF position.has_vesting
           /\ position.vesting_current_period < position.vesting_total_periods
        THEN position.vesting_current_period + 1
        ELSE position.vesting_current_period]

nothing_claimable_never(rewards) == FALSE

\* rewards.claimable_amount == 0
nothing_claimable(rewards) == rewards.claimable_amount = Zero

\* what claim_rewards does once its checks have passed, in program order
claim_rewards_steps ==
  <<"calculate_rewards", "transfer", "set_staking_position", "publish">>

\* claim_rewards once the rewards are calculated
claim_rewarded(user, position, rewards) ==
  IF rewards = None
  THEN TrapsAfter("claim_rewards", user, "calculate_rewards",
                  <<"calculate_rewards">>)
  ELSE IF nothing_claimable(rewards[1])
  THEN Reads("claim_rewards", user, Zero)
  ELSE IF ~can_transfer(balance, Contract, user, rewards[1].claimable_amount)
  THEN TrapsAfter("claim_rewards", user, "transfer",
                  <<"calculate_rewards", "transfer">>)
  ELSE
    /\ balance' = transfer(balance, Contract, user,
                           rewards[1].claimable_amount)
    /\ positions' = [positions EXCEPT ![user] =
                       Some(claimed_position(position, now))]
    /\ call' = Performed(claim_rewards_steps,
                 Outcome("claim_rewards", user, "Ok", "",
                   rewards[1].claimable_amount,
                   <<Event("rewards_claimed", user,
                           <<rewards[1].base_rewards,
                             rewards[1].bonus_rewards, now>>)>>,
                   <<Transfer(Contract, user, rewards[1].claimable_amount)>>))
    /\ UNCHANGED <<admin, pool, emergency, now, ticks, bridge>>

claim_rewards(caller, user) ==
  IF caller # user
  THEN Traps("claim_rewards", user, "require_auth")
  ELSE IF pool = None
  THEN Traps("claim_rewards", user, "unwrap")
  ELSE IF get_staking_position(user) = None
  THEN Returns("claim_rewards", user, "NotStaked")
  ELSE claim_rewarded(user, get_staking_position(user)[1],
         calculate_rewards(get_staking_position(user)[1], pool[1], now))

\* the read operations need no authorization
Anyone == "anyone"

get_position(user) ==
  IF get_staking_position(user) = None
  THEN Returns("get_position", user, "PositionNotFound")
  ELSE Reads("get_position", user, get_staking_position(user)[1])

get_pool_info ==
  IF pool = None
  THEN Traps("get_pool_info", Anyone, "unwrap")
  ELSE Reads("get_pool_info", Anyone, pool[1])

\* get_pending_rewards once the rewards are calculated
pending_rewarded(user, rewards) ==
  IF rewards = None
  THEN Traps("get_pending_rewards", user, "calculate_rewards")
  ELSE Reads("get_pending_rewards", user, rewards[1])

get_pending_rewards(user) ==
  IF pool = None
  THEN Traps("get_pending_rewards", user, "unwrap")
  ELSE IF get_staking_position(user) = None
  THEN Returns("get_pending_rewards", user, "NotStaked")
  ELSE pending_rewarded(user,
         calculate_rewards(get_staking_position(user)[1], pool[1], now))

not_stored_admin_never(a) == FALSE

\* admin != stored_admin
not_stored_admin(a) == a # admin[1]

update_pool(caller, a, reward_rate, bonus_multiplier) ==
  IF caller # a
      THEN Traps("update_pool", a, "require_auth")
      ELSE IF admin = None
      THEN Traps("update_pool", a, "unwrap")
      ELSE IF not_stored_admin(a)
      THEN Returns("update_pool", a, "Unauthorized")
      ELSE IF pool = None
      THEN Traps("update_pool", a, "unwrap")
      ELSE IF reward_rate # None /\ Lt(reward_rate[1], Zero)
      THEN Returns("update_pool", a, "InvalidPoolConfig")
      ELSE
        LET pl == pool[1]
            updated ==
              [pl EXCEPT
                 !.reward_rate =
                    IF reward_rate # None THEN reward_rate[1] ELSE @,
                 !.bonus_multiplier =
                    IF bonus_multiplier # None THEN bonus_multiplier[1]
                    ELSE @]
        IN  /\ pool' = Some(updated)
            /\ call' = Outcome("update_pool", a, "Ok", "",
                         None,
                         <<Event("pool_updated", a,
                             <<updated.reward_rate, updated.bonus_multiplier,
                               now>>)>>, <<>>)
            /\ UNCHANGED <<admin, emergency, positions, balance, now, ticks, bridge>>

set_emergency_mode(caller, a, enabled) ==
  IF caller # a
  THEN Traps("set_emergency_mode", a, "require_auth")
  ELSE IF admin = None
  THEN Traps("set_emergency_mode", a, "unwrap")
  ELSE IF not_stored_admin(a)
  THEN Returns("set_emergency_mode", a, "Unauthorized")
  ELSE
    /\ emergency' = Some(enabled)
    /\ call' = Outcome("set_emergency_mode", a, "Ok",
                 "", None, <<>>, <<>>)
    /\ UNCHANGED <<admin, pool, positions, balance, now, ticks, bridge>>

\* the ledger closes: the timestamp advances
Tick(d) ==
  /\ ticks < MaxTicks
  /\ now' = now + d
  /\ ticks' = ticks + 1
  /\ call' = Outcome("tick", Anyone, "Ok", "", None,
               <<>>, <<>>)
  /\ UNCHANGED <<store, bridge>>

Next ==
  \/ \E caller \in {Admin, "u1"}, args \in InitArgs :
       initialize(caller, Admin, Token, args[1], InitBonus, args[2], args[3])
  \/ \E caller \in Users, user \in Users :
       \E args \in StakeArgs(user) :
         stake(caller, user, args[1], args[2], args[3])
  \/ \E caller \in Users, user \in Users : unstake(caller, user)
  \/ \E caller \in Users, user \in Users : claim_rewards(caller, user)
  \/ \E user \in Users : get_position(user)
  \/ get_pool_info
  \/ \E user \in Users : get_pending_rewards(user)
  \/ \E caller \in {Admin, "u1"}, a \in {Admin, "u1"}, args \in UpdateArgs :
       update_pool(caller, a, args[1], args[2])
  \/ \E caller \in {Admin, "u1"}, a \in {Admin, "u1"}, enabled \in BOOLEAN :
       set_emergency_mode(caller, a, enabled)
  \/ \E d \in TimeSteps : Tick(d)

Spec == Init /\ [][Next]_vars

---------------------------------------------------------------------------
(* The reward arithmetic over wide inputs.  SpecCalc starts in the states  *)
(* the contract is in after initialize(rate, min_stake 0, max_stake        *)
(* i128::MAX), one stake by u1 of its whole balance at CalcStart and the   *)
(* admin's choice of emergency mode, once time has passed; the operations  *)
(* that compute rewards run from there.                                    *)

\* 10^33: with it reward_rate * amount leaves the range of i128
HugeRate == BigOf(FALSE, <<0, 0, 0, 0, 0, 0, 0, 0, 10>>)

\* i128::MAX - 1000: amount + claimable_amount can leave the range of i128
AlmostMax == BigSub(I128_MAX, I128(1000))

CalcStart == 5000

CalcRates == {I128(1), I128(1000000000), HugeRate}

CalcAmounts == {I128(1000), I128(1000000), AlmostMax}

\* <<lock_period, vesting_periods>> of the position
CalcShapes ==
  { <<LOCK_30_DAYS, None>>, <<LOCK_30_DAYS, Some(4)>>,
    <<LOCK_90_DAYS, None>>, <<LOCK_90_DAYS, Some(8)>>,
    <<LOCK_30_DAYS, Some(1)>> }

\* time passed since the stake
CalcElapsed == {1, 1000, LOCK_30_DAYS \div 2}

\* time passed since the stake of a position of the given shape: a position
\* vesting in one period is taken up when that period is over
CalcElapsedOf(shape) ==
  IF shape = <<LOCK_30_DAYS, Some(1)>> THEN {LOCK_30_DAYS} ELSE CalcElapsed

InitCalc ==
  \E rate \in CalcRates, amount \in CalcAmounts, shape \in CalcShapes,
     enabled \in BOOLEAN :
    \E elapsed \in CalcElapsedOf(shape) :
      LET lock == shape[1]
          vesting == stake_vesting(shape[1], shape[2])[1]
          funded == checked_add(amount, RewardReserve)
      IN  /\ admin = Some(Admin)
          /\ pool = Some([token |-> Token,
                          total_staked |-> amount,
                          reward_rate |-> rate,
                          bonus_multiplier |-> InitBonus,
                          min_stake |-> Zero,
                          max_stake |-> I128_MAX,
                          emergency_withdrawal_fee |-> 500])
          /\ emergency = Some(enabled)
          /\ positions =
               [u \in Users |->
                  IF u = "u1"
                  THEN Some([user |-> u,
                             amount |-> amount,
                             start_time |-> CalcStart,
                             last_reward_time |-> CalcStart,
                             reward_multiplier |-> get_reward_multiplier(lock),
                             lock_period |-> lock,
                             has_vesting |-> vesting.has_vesting,
                             vesting_total_periods |->
                               vesting.vesting_total_periods,
                             vesting_current_period |->
                               vesting.vesting_current_period,
                             vesting_period_duration |->
                               vesting.vesting_period_duration,
                             vesting_cliff_percentage |->
                               vesting.vesting_cliff_percentage])
                  ELSE None]
          /\ balance = [h \in Holders |->
                          IF h = "u2" THEN InitialUserBalance
                          ELSE IF h = Contract
                          THEN (IF funded = None THEN amount ELSE funded[1])
                          ELSE Zero]
          /\ now = CalcStart + elapsed
          /\ ticks = 0
          /\ call = Outcome("deploy", Admin, "Ok", "", None, <<>>, <<>>)
          /\ BridgeDeployed

NextCalc ==
  \/ \E user \in Users : claim_rewards(user, user)
  \/ \E user \in Users : unstake(user, user)
  \/ \E user \in Users : get_pending_rewards(user)
  \/ stake("u2", "u2", I128(1000000), LOCK_365_DAYS, None)
  \/ \E d \in TimeSteps : Tick(d)

SpecCalc == InitCalc /\ [][NextCalc]_vars

---------------------------------------------------------------------------
(* The contract under pool configurations at the edges of what initialize  *)
(* accepts.  SpecPool starts from the deployed contract like Spec and runs *)
(* the same entry points; it tries several configurations, stakes at and   *)
(* beyond the bounds of the pool and partial updates of the pool.          *)

\* arguments tried for initialize: <<reward_rate, min_stake, max_stake>>
PoolInitArgs ==
  { <<I128(1000000), Zero, I128(3000000)>>,
    <<Zero, I128(2999999), I128(3000000)>>,
    <<I128(-1), Zero, I128(3000000)>>,
    <<I128(1000000), I128(-1), I128(3000000)>>,
    <<I128(1000000), I128(3000000), I128(3000000)>>,
    <<I128(1000000), I128(3000000), I128(2999999)>> }

\* arguments tried for update_pool: <<reward_rate, bonus_multiplier>>
PoolUpdateArgs ==
  { <<None, None>>, <<Some(Zero), None>>, <<None, Some(20)>>,
    <<Some(I128(-1)), Some(20)>> }

\* arguments tried for stake, per user:
\* <<amount, lock_period, vesting_periods>>
PoolStakeArgs(u) ==
  IF u = "u1"
  THEN { <<Zero, LOCK_30_DAYS, None>>,
         <<I128(1000), LOCK_30_DAYS, Some(4)>>,
         <<I128(-1), LOCK_30_DAYS, None>>,
         <<I128(3000001), LOCK_30_DAYS, None>>,
         <<I128(1000), 45 * 24 * 60 * 60, None>> }
  ELSE { <<I128(3000000), LOCK_90_DAYS, None>>,
         <<I128(2000000), LOCK_365_DAYS, None>> }

NextPool ==
  \/ \E caller \in {Admin, "u1"}, args \in PoolInitArgs :
       initialize(caller, Admin, Token, args[1], InitBonus, args[2], args[3])
  \/ \E caller \in Users, user \in Users :
       \E args \in PoolStakeArgs(user) :
         stake(caller, user, args[1], args[2], args[3])
  \/ \E caller \in Users, user \in Users : unstake(caller, user)
  \/ \E caller \in Users, user \in Users : claim_rewards(caller, user)
  \/ \E user \in Users : get_position(user)
  \/ get_pool_info
  \/ \E user \in Users : get_pending_rewards(user)
  \/ \E caller \in {Admin, "u1"}, a \in {Admin, "u1"},
        args \in PoolUpdateArgs :
       update_pool(caller, a, args[1], args[2])
  \/ \E caller \in {Admin, "u1"}, a \in {Admin, "u1"}, enabled \in BOOLEAN :
       set_emergency_mode(caller, a, enabled)
  \/ Tick(LOCK_30_DAYS)

SpecPool == Init /\ [][NextPool]_vars

---------------------------------------------------------------------------
(* CrossChainBridge (cross_chain_bridge/src/lib.rs)                        *)

\* the largest nonce tried for process_payload
MaxNonce == 3

\* nonces tried for process_payload: negative, zero, and every value up to
\* MaxNonce; for each stored nonce below MaxNonce they hold a replay, a
\* smaller nonce, the next nonce and, below MaxNonce - 1, a skipped one
NonceArgs == -1 .. MaxNonce

\* amounts tried for lock_tokens and process_payload
BridgeAmounts == {I128(1000), I128(-5)}

ValidatorKey == "pubkey"

\* storage().persistent().get(&DataKey::Nonce(user)).unwrap_or(0)
stored_nonce(user) ==
  IF nonces[user] = None THEN 0 ELSE nonces[user][1]

nonce_rejected_if_not_above(user, nonce) ==
  nonce <= stored_nonce(user)

\* nonce != current_nonce + 1
nonce_rejected(user, nonce) ==
  nonce # stored_nonce(user) + 1

\* a bridge invocation that panics or only reads
BridgeLeaves(outcome) ==
  /\ call' = outcome
  /\ UNCHANGED <<store, now, ticks, bridge>>

bridge_initialize(a, pubkey) ==
  IF bridge_admin # None
  THEN BridgeLeaves(Outcome("bridge.initialize", a, "Trap",
                            "Already initialized", None, <<>>, <<>>))
  ELSE
    /\ bridge_admin' = Some(a)
    /\ validator_pubkey' = Some(pubkey)
    /\ call' = Outcome("bridge.initialize", a, "Ok", "", None, <<>>, <<>>)
    /\ UNCHANGED <<store, now, ticks, nonces, accepted>>

lock_tokens(caller, user, amount, destination_chain, destination_address) ==
  IF caller # user
  THEN BridgeLeaves(Outcome("lock_tokens", user, "Trap", "require_auth",
                            None, <<>>, <<>>))
  ELSE BridgeLeaves(Outcome("lock_tokens", user, "Ok", "", None,
                      <<Event(<<"lock", destination_chain>>, user,
                              <<amount, destination_address>>)>>, <<>>))

process_payload(caller, user, amount, nonce) ==
  IF bridge_admin = None
  THEN BridgeLeaves(Outcome("process_payload", user, "Trap", "unwrap",
                            None, <<>>, <<>>))
  ELSE IF caller # bridge_admin[1]
  THEN BridgeLeaves(Outcome("process_payload", user, "Trap", "require_auth",
                            None, <<>>, <<>>))
  ELSE IF nonce_rejected(user, nonce)
  THEN BridgeLeaves(Outcome("process_payload", user, "Trap", "Invalid nonce",
                            None, <<>>, <<>>))
  ELSE
    /\ nonces' = [nonces EXCEPT ![user] = Some(nonce)]
    /\ accepted' = [accepted EXCEPT ![user] = Append(@, nonce)]
    /\ call' = Outcome("process_payload", user, "Ok", "", None,
                 <<Event("mint", user, amount)>>, <<>>)
    /\ UNCHANGED <<store, now, ticks, bridge_admin, validator_pubkey>>

get_nonce(user) ==
  BridgeLeaves(Outcome("get_nonce", user, "Ok", "", stored_nonce(user),
                       <<>>, <<>>))

NextBridge ==
  \/ \E a \in {Admin, "u1"} : bridge_initialize(a, ValidatorKey)
  \/ \E caller \in Users, user \in Users, amount \in BridgeAmounts :
       lock_tokens(caller, user, amount, "ETH", "0x123")
  \/ \E caller \in {Admin, "u1"}, user \in Users, amount \in BridgeAmounts,
        nonce \in NonceArgs :
       process_payload(caller, user, amount, nonce)
  \/ \E user \in Users : get_nonce(user)

SpecBridge == Init /\ [][NextBridge]_vars

---------------------------------------------------------------------------
(* Properties of the staking contract, checked under Spec                  *)

RecognizedLocks == {LOCK_30_DAYS, LOCK_90_DAYS, LOCK_180_DAYS, LOCK_365_DAYS}

\* the multiplier table of the specification
MultiplierOf(lock_period) ==
  CASE lock_period = LOCK_30_DAYS  -> 100
    [] lock_period = LOCK_90_DAYS  -> 150
    [] lock_period = LOCK_180_DAYS -> 200
    [] lock_period = LOCK_365_DAYS -> 300
    [] OTHER -> 0

\* lock periods at, next to and between the recognized durations
LockSamples ==
  UNION {{l - 1, l, l + 1} : l \in RecognizedLocks}
    \cup {0, 45 * 24 * 60 * 60}

EmergencyOn == emergency # None /\ emergency[1]

AmountInRange(amount) ==
  Le(pool[1].min_stake, amount) /\ Le(amount, pool[1].max_stake)

\* the step is the call stake(u, u, args) by a user of an initialized pool
StakeCall(u, args) ==
  /\ pool # None
  /\ call'.op = "stake"
  /\ call'.user = u
  /\ stake(u, u, args[1], args[2], args[3])

\* the step is the call unstake(u, u) by a user who has a position
UnstakeCall(u) ==
  /\ pool # None
  /\ positions[u] # None
  /\ call'.op = "unstake"
  /\ call'.user = u
  /\ unstake(u, u)

\* the step is the call claim_rewards(u, u) by a user who has a position
ClaimCall(u) ==
  /\ pool # None
  /\ positions[u] # None
  /\ call'.op = "claim_rewards"
  /\ call'.user = u
  /\ claim_rewards(u, u)

Failed(err) ==
  call'.status = "Err" /\ call'.err = err

OnePositionPerUser ==
  \A u \in Users :
    /\ Len(positions[u]) <= 1
    /\ positions[u] # None => positions[u][1].user = u

\* C1 as stated: each user has zero or one stored position, and every stake
\* call by a user who already has a position fails with AlreadyStaked and
\* leaves pool.total_staked and the existing position unchanged.
C1_AsStated ==
  /\ []OnePositionPerUser
  /\ [][\A u \in Users : \A args \in StakeArgs(u) :
          (positions[u] # None /\ StakeCall(u, args))
            => /\ Failed("AlreadyStaked")
               /\ pool' = pool
               /\ positions' = positions]_vars

\* C1: each user has zero or one stored position, and every stake call by a
\* user who already has a position fails and leaves the pool, the positions
\* and the balances unchanged; the error is AlreadyStaked when emergency mode
\* is off and the amount and the lock period are valid, and otherwise that of
\* the earlier check (EmergencyMode, InvalidAmount, InvalidLockPeriod).
C1_SecondStakeFails ==
  /\ []OnePositionPerUser
  /\ [][\A u \in Users : \A args \in StakeArgs(u) :
          (positions[u] # None /\ StakeCall(u, args))
            => /\ Failed(IF EmergencyOn THEN "EmergencyMode"
                         ELSE IF ~AmountInRange(args[1]) THEN "InvalidAmount"
                         ELSE IF args[2] \notin RecognizedLocks
                         THEN "InvalidLockPeriod"
                         ELSE "AlreadyStaked")
               /\ store' = store]_vars

\* a second stake was refused with AlreadyStaked
C1_Witness ==
  /\ call.op = "stake"
  /\ call.status = "Err"
  /\ call.err = "AlreadyStaked"
  /\ positions[call.user] # None

\* C2: a successful stake of amount A increases pool.total_staked by exactly
\* A, a successful unstake decreases it by exactly position.amount, and
\* claim_rewards leaves it unchanged.
C2_TotalStakedDeltas ==
  [][/\ \A u \in Users : \A args \in StakeArgs(u) :
          (StakeCall(u, args) /\ call'.status = "Ok")
            => pool'[1].total_staked
                 = BigAdd(pool[1].total_staked, args[1])
     /\ \A u \in Users :
          (UnstakeCall(u) /\ call'.status = "Ok")
            => pool'[1].total_staked
                 = BigSub(pool[1].total_staked, positions[u][1].amount)
     /\ \A u \in Users :
          ClaimCall(u) => pool' = pool]_vars

\* an unstake that paid rewards on top of the principal
C2_Witness ==
  /\ call.op = "unstake"
  /\ call.status = "Ok"
  /\ Lt(Zero, call.value)
  /\ \E u \in Users : positions[u] # None

\* C3 as stated: for a user with a position, unstake before the lock expires
\* with emergency mode off fails with LockPeriodNotExpired and changes
\* nothing; with emergency mode on, unstake succeeds and removes the
\* position, however much time has elapsed.
C3_AsStated ==
  [][\A u \in Users :
       UnstakeCall(u)
         => /\ (/\ saturating_sub(now, positions[u][1].start_time)
                     < positions[u][1].lock_period
                /\ ~EmergencyOn)
                 => (Failed("LockPeriodNotExpired") /\ store' = store)
            /\ EmergencyOn
                 => (call'.status = "Ok" /\ positions'[u] = None)]_vars

\* in emergency mode an unstake aborted in the reward calculation, and the
\* position is still there
C3_Witness ==
  /\ call.op = "unstake"
  /\ call.status = "Trap"
  /\ call.err = "calculate_rewards"
  /\ EmergencyOn
  /\ positions[call.user] # None
  /\ positions[call.user][1].vesting_period_duration = 0

\* C4: once initialize has succeeded, every later initialize call fails and
\* leaves the stored admin, pool and emergency flag unchanged.
C4_ReinitializeFails ==
  [][(admin # None /\ call'.op = "initialize")
       => /\ Failed("NotInitialized")
          /\ admin' = admin
          /\ pool' = pool
          /\ emergency' = emergency
          /\ positions' = positions
          /\ balance' = balance]_vars

\* initialize was refused on a pool that is in use
C4_Witness ==
  /\ call.op = "initialize"
  /\ call.status = "Err"
  /\ call.err = "NotInitialized"
  /\ pool # None
  /\ pool[1].total_staked # Zero
  /\ \E u \in Users : positions[u] # None

\* C5 as stated: the recognized lock periods map to 100, 150, 200 and 300,
\* a stake with one of them stores that multiplier, and a stake with any
\* other lock_period fails with InvalidLockPeriod, creates no position and
\* leaves the pool unchanged.
C5_AsStated ==
  /\ [](\A l \in LockSamples : get_reward_multiplier(l) = MultiplierOf(l))
  /\ [][\A u \in Users : \A args \in StakeArgs(u) :
          StakeCall(u, args)
            => IF args[2] \in RecognizedLocks
               THEN call'.status = "Ok"
                      => positions'[u][1].reward_multiplier
                           = MultiplierOf(args[2])
               ELSE /\ Failed("InvalidLockPeriod")
                    /\ positions' = positions
                    /\ pool' = pool]_vars

\* C5: the recognized lock periods map to 100, 150, 200 and 300, a successful
\* stake with one of them stores that multiplier, and a stake with any other
\* lock_period fails, creates no position and leaves the pool unchanged; the
\* error is InvalidLockPeriod when emergency mode is off and the amount is
\* within [min_stake, max_stake], and otherwise EmergencyMode or
\* InvalidAmount, whose checks come first.
C5_ExactLockPeriods ==
  /\ [](\A l \in LockSamples : get_reward_multiplier(l) = MultiplierOf(l))
  /\ [][\A u \in Users : \A args \in StakeArgs(u) :
          StakeCall(u, args)
            => IF args[2] \in RecognizedLocks
               THEN call'.status = "Ok"
                      => positions'[u][1].reward_multiplier
                           = MultiplierOf(args[2])
               ELSE /\ Failed(IF EmergencyOn THEN "EmergencyMode"
                              ELSE IF ~AmountInRange(args[1])
                              THEN "InvalidAmount"
                              ELSE "InvalidLockPeriod")
                    /\ store' = store]_vars

\* a stake was refused with InvalidLockPeriod while another user's position,
\* with the multiplier of 365 days, is stored
C5_Witness ==
  /\ call.op = "stake"
  /\ call.status = "Err"
  /\ call.err = "InvalidLockPeriod"
  /\ \E u \in Users :
       /\ positions[u] # None
       /\ positions[u][1].lock_period = LOCK_365_DAYS
       /\ positions[u][1].reward_multiplier = 300

\* the calculation finds nothing claimable for u now
NothingToClaim(u) ==
  /\ calculate_rewards(positions[u][1], pool[1], now) # None
  /\ calculate_rewards(positions[u][1], pool[1], now)[1].claimable_amount
       = Zero

\* C6: claim_rewards for a user with a position whose claimable_amount is 0
\* returns 0, transfers nothing, emits no event and leaves the position and
\* the pool unchanged.
C6_NothingToClaim ==
  [][\A u \in Users :
       (ClaimCall(u) /\ NothingToClaim(u))
         => /\ call'.status = "Ok"
            /\ call'.value = Zero
            /\ call'.transfers = <<>>
            /\ call'.events = <<>>
            /\ store' = store]_vars

\* a claim returned 0 for a vesting position some time after its last reward
C6_Witness ==
  /\ call.op = "claim_rewards"
  /\ call.status = "Ok"
  /\ call.value = Zero
  /\ positions[call.user] # None
  /\ positions[call.user][1].has_vesting
  /\ positions[call.user][1].last_reward_time < now
  /\ pool[1].reward_rate # Zero

---------------------------------------------------------------------------
(* Properties of the reward arithmetic, checked under SpecCalc             *)

\* times before, at and after the position's last reward and the present
SampleTimes(position) ==
  {position.last_reward_time - 1, position.last_reward_time,
   now, now + 1000, now + LOCK_30_DAYS \div 2}

Staked == {u \in Users : pool # None /\ positions[u] # None}

\* max(0, t - last_reward_time) as i128
ElapsedSinceReward(position, t) ==
  I128(IF t > position.last_reward_time
       THEN t - position.last_reward_time ELSE 0)

\* reward_rate * amount * elapsed / 1e9 in unbounded integers
ExactBase(pl, position, t) ==
  BigDiv(BigMul(BigMul(pl.reward_rate, position.amount),
                ElapsedSinceReward(position, t)),
         I128(1000000000))

\* base * (reward_multiplier - 100) / 100 in unbounded integers
ExactBonus(position, base) ==
  BigDiv(BigMul(base, I128(position.reward_multiplier - 100)), I128(100))

PeriodsCompleted(position, t) ==
  (IF t > position.start_time THEN t - position.start_time ELSE 0)
    \div position.vesting_period_duration

\* the vesting rule of the specification in unbounded integers
ExactVesting(position, total, t) ==
  IF PeriodsCompleted(position, t) >= position.vesting_total_periods
  THEN total
  ELSE BigMax(IF PeriodsCompleted(position, t) = 0 THEN Zero
              ELSE BigDiv(BigMul(total,
                                 I128(position.vesting_cliff_percentage)),
                          I128(10000)),
              BigDiv(BigMul(total, I128(PeriodsCompleted(position, t))),
                     I128(position.vesting_total_periods)))

\* the calculations, each with its time, do not decrease over the times at
\* which they do not abort
MonotoneOn(calcs) ==
  \A c1 \in calcs : \A c2 \in calcs :
    (c1.time <= c2.time /\ c1.rewards # None /\ c2.rewards # None)
      => Le(c1.rewards[1].total_rewards, c2.rewards[1].total_rewards)

\* C7: for a fixed position and pool with reward_rate >= 0, total_rewards
\* is monotone in time: now1 <= now2 gives calculate(now1).total_rewards
\* <= calculate(now2).total_rewards whenever neither calculation aborts.
C7_RewardsMonotoneInTime ==
  \A u \in Staked :
    Le(Zero, pool[1].reward_rate)
      => MonotoneOn({[time |-> t,
                      rewards |->
                        calculate_rewards(positions[u][1], pool[1], t)] :
                     t \in SampleTimes(positions[u][1])})

\* the pending rewards were read, they are positive, and later they are more
C7_Witness ==
  /\ call.op = "get_pending_rewards"
  /\ call.status = "Ok"
  /\ Lt(Zero, call.value.total_rewards)
  /\ positions[call.user] # None
  /\ calculate_rewards(positions[call.user][1], pool[1], now + 1000) # None
  /\ Lt(call.value.total_rewards,
        calculate_rewards(positions[call.user][1], pool[1], now + 1000)[1]
          .total_rewards)

\* the calculation r at time t follows the vesting rule
VestingAsSpecified(position, t, r) ==
  /\ r.claimable_amount = r.vesting_amount
  /\ r.vesting_amount = IF position.has_vesting
                        THEN ExactVesting(position, r.total_rewards, t)
                        ELSE r.total_rewards

\* C8: whenever the calculation does not abort: with has_vesting,
\* vesting_amount = claimable_amount is total_rewards once periods_completed
\* (= (now - start_time) / vesting_period_duration) >= max_periods, and otherwise max(cliff_amount,
\* vested_amount) with cliff_amount 0 at periods_completed = 0 and
\* total_rewards * cliff_bps / 10000 after, and vested_amount =
\* total_rewards * periods_completed / max_periods; without vesting
\* claimable_amount = total_rewards.
C8_VestingFormula ==
  \A u \in Staked :
    \A c \in {[time |-> t,
               rewards |-> calculate_rewards(positions[u][1], pool[1], t)] :
              t \in SampleTimes(positions[u][1])} :
      c.rewards # None
        => VestingAsSpecified(positions[u][1], c.time, c.rewards[1])

\* 2 of 4 periods are complete and the pending rewards are half the total
C8_Witness ==
  /\ call.op = "get_pending_rewards"
  /\ call.status = "Ok"
  /\ positions[call.user] # None
  /\ positions[call.user][1].has_vesting
  /\ positions[call.user][1].vesting_total_periods = 4
  /\ positions[call.user][1].vesting_cliff_percentage = 2500
  /\ PeriodsCompleted(positions[call.user][1], now) = 2
  /\ Lt(Zero, call.value.total_rewards)
  /\ call.value.claimable_amount
       = BigDiv(BigMul(call.value.total_rewards, I128(2)), I128(4))

\* the pool and the position of the specification's example: rate 1e9,
\* amount 1000, multiplier 100, no prior claim
ExamplePool ==
  [token |-> Token, total_staked |-> I128(1000),
   reward_rate |-> I128(1000000000), bonus_multiplier |-> InitBonus,
   min_stake |-> Zero, max_stake |-> I128_MAX,
   emergency_withdrawal_fee |-> 500]

ExamplePosition ==
  [user |-> "u1", amount |-> I128(1000), start_time |-> CalcStart,
   last_reward_time |-> CalcStart, reward_multiplier |-> 100,
   lock_period |-> LOCK_30_DAYS, has_vesting |-> FALSE,
   vesting_total_periods |-> 0, vesting_current_period |-> 0,
   vesting_period_duration |-> 0, vesting_cliff_percentage |-> 0]

\* the calculation r follows the reward formula, given the exact base
RewardsAsSpecified(position, r, base) ==
  /\ r.base_rewards = base
  /\ r.bonus_rewards = ExactBonus(position, base)
  /\ r.total_rewards = BigAdd(base, ExactBonus(position, base))

\* C9: whenever the calculation does not abort, base_rewards = reward_rate *
\* amount * max(0, now - last_reward_time) / 1e9, bonus_rewards =
\* base_rewards * (reward_multiplier - 100) / 100 and total_rewards is their
\* sum; rate 1e9, amount 1000, multiplier 100 and 1000 seconds give
\* 1_000_000, 0 and 1_000_000.
C9_RewardFormula ==
  /\ \A u \in Staked :
       \A c \in {[time |-> t,
                  rewards |->
                    calculate_rewards(positions[u][1], pool[1], t)] :
                 t \in SampleTimes(positions[u][1])} :
         c.rewards # None
           => RewardsAsSpecified(positions[u][1], c.rewards[1],
                ExactBase(pool[1], positions[u][1], c.time))
  /\ calculate_rewards(ExamplePosition, ExamplePool, CalcStart + 1000)
       = Some([base_rewards     |-> I128(1000000),
               bonus_rewards    |-> Zero,
               total_rewards    |-> I128(1000000),
               vesting_amount   |-> I128(1000000),
               claimable_amount |-> I128(1000000)])

\* the example of the specification was read from the contract, and so was
\* a position with a bonus
C9_Witness ==
  /\ call.op = "get_pending_rewards"
  /\ call.status = "Ok"
  /\ pool[1].reward_rate = I128(1000000000)
  /\ positions[call.user] # None
  /\ positions[call.user][1].amount = I128(1000)
  /\ now = positions[call.user][1].last_reward_time + 1000
  /\ \/ /\ positions[call.user][1].reward_multiplier = 100
        /\ call.value.base_rewards = I128(1000000)
        /\ call.value.bonus_rewards = Zero
        /\ call.value.total_rewards = I128(1000000)
     \/ /\ positions[call.user][1].reward_multiplier = 150
        /\ call.value.base_rewards = I128(1000000)
        /\ call.value.bonus_rewards = I128(500000)
        /\ call.value.total_rewards = I128(1500000)

\* a product of the vesting rule leaves the range of i128
VestingOverflows(position, total, t) ==
  /\ position.has_vesting
  /\ position.vesting_period_duration # 0
  /\ PeriodsCompleted(position, t) < position.vesting_total_periods
  /\ \/ /\ PeriodsCompleted(position, t) # 0
        /\ ~InI128(BigMul(total, I128(position.vesting_cliff_percentage)))
     \/ ~InI128(BigMul(total, I128(PeriodsCompleted(position, t))))

\* a product or sum of the reward calculation leaves the range of i128
RewardOverflows(pl, position, t) ==
  \/ ~InI128(BigMul(pl.reward_rate, position.amount))
  \/ ~InI128(BigMul(BigMul(pl.reward_rate, position.amount),
                    ElapsedSinceReward(position, t)))
  \/ ~InI128(BigMul(ExactBase(pl, position, t),
                    I128(position.reward_multiplier - 100)))
  \/ ~InI128(BigAdd(ExactBase(pl, position, t),
                    ExactBonus(position, ExactBase(pl, position, t))))
  \/ VestingOverflows(position,
       BigAdd(ExactBase(pl, position, t),
              ExactBonus(position, ExactBase(pl, position, t))), t)

\* principal + rewards of an unstake leaves the range of i128
PayoutOverflows(pl, position, t) ==
  /\ calculate_rewards(position, pl, t) # None
  /\ ~InI128(BigAdd(position.amount,
                    calculate_rewards(position, pl, t)[1].claimable_amount))

\* unstake gets as far as its arithmetic
LockOver(position) ==
  \/ EmergencyOn
  \/ ~(saturating_sub(now, position.start_time) < position.lock_period)

\* stake gets as far as its arithmetic
StakeAccepted(u, args) ==
  /\ ~EmergencyOn
  /\ AmountInRange(args[1])
  /\ args[2] \in RecognizedLocks
  /\ positions[u] = None
  /\ (args[3] = None \/ args[3][1] # 0)
  /\ Le(args[1], balance[u])

Aborted ==
  call'.status = "Trap" /\ store' = store

\* the stake of u2 under SpecCalc
CalcStake == <<I128(1000000), LOCK_365_DAYS, None>>

\* C10: when a product or sum of the accounting leaves the range of i128
\* (the reward products and sums, the payout of unstake, the total_staked
\* update of stake), claim_rewards, unstake, stake and get_pending_rewards
\* abort: no value is returned and storage and balances are as before.
C10_OverflowAborts ==
  [][/\ \A u \in Users :
          (/\ ClaimCall(u)
           /\ RewardOverflows(pool[1], positions[u][1], now))
            => Aborted
     /\ \A u \in Users :
          (/\ UnstakeCall(u)
           /\ LockOver(positions[u][1])
           /\ \/ RewardOverflows(pool[1], positions[u][1], now)
              \/ PayoutOverflows(pool[1], positions[u][1], now))
            => Aborted
     /\ \A u \in Users :
          (/\ pool # None
           /\ positions[u] # None
           /\ call'.op = "get_pending_rewards"
           /\ call'.user = u
           /\ get_pending_rewards(u)
           /\ RewardOverflows(pool[1], positions[u][1], now))
            => Aborted
     /\ \A u \in Users :
          (/\ StakeCall(u, CalcStake)
           /\ StakeAccepted(u, CalcStake)
           /\ ~InI128(BigAdd(pool[1].total_staked, CalcStake[1])))
            => Aborted]_vars

\* a claim aborted because reward_rate * amount * time is no i128
C10_Witness ==
  /\ call.op = "claim_rewards"
  /\ call.status = "Trap"
  /\ call.err = "calculate_rewards"
  /\ positions[call.user] # None
  /\ RewardOverflows(pool[1], positions[call.user][1], now)

\* an unstake aborted because principal + rewards is no i128
C10_PayoutWitness ==
  /\ call.op = "unstake"
  /\ call.status = "Trap"
  /\ call.err = "Total amount overflow"
  /\ positions[call.user] # None
  /\ PayoutOverflows(pool[1], positions[call.user][1], now)

\* a stake aborted because total_staked + amount is no i128
C10_StakeWitness ==
  /\ call.op = "stake"
  /\ call.status = "Trap"
  /\ call.err = "Overflow in total staked"
  /\ positions[call.user] = None
  /\ ~InI128(BigAdd(pool[1].total_staked, CalcStake[1]))

---------------------------------------------------------------------------
(* The times of a position, checked under Spec                             *)

TimesInOrder(position) ==
  /\ position.start_time <= position.last_reward_time
  /\ position.last_reward_time <= now

\* the step is a claim_rewards of u that pays a non-zero amount
PayingClaim(u) ==
  /\ call'.op = "claim_rewards"
  /\ call'.user = u
  /\ call'.status = "Ok"
  /\ call'.value # Zero

\* C17: the clock never goes back; every stored position has
\* start_time <= last_reward_time <= now; stake sets both to the current
\* time; start_time never changes afterwards; last_reward_time changes only
\* through a claim_rewards that pays a non-zero amount, which sets it to the
\* current time, later than its old value.
C17_PositionTimes ==
  /\ [](\A u \in Users : positions[u] # None => TimesInOrder(positions[u][1]))
  /\ [][/\ now' >= now
        /\ \A u \in Users :
             /\ positions[u] = None /\ positions'[u] # None
                  => /\ call'.op = "stake" /\ call'.user = u
                     /\ positions'[u][1].start_time = now
                     /\ positions'[u][1].last_reward_time = now
             /\ positions[u] # None /\ positions'[u] # None
                  => /\ positions'[u][1].start_time
                          = positions[u][1].start_time
                     /\ positions'[u][1].last_reward_time
                          # positions[u][1].last_reward_time
                          => /\ PayingClaim(u)
                             /\ positions'[u][1].last_reward_time
                                  > positions[u][1].last_reward_time
             /\ positions[u] # None /\ PayingClaim(u)
                  => /\ positions'[u] # None
                     /\ positions'[u][1].last_reward_time = now
       ]_vars

\* a claim has paid rewards and moved last_reward_time of a position staked
\* earlier to the current time
C17_Witness ==
  /\ call.op = "claim_rewards"
  /\ call.status = "Ok"
  /\ call.value # Zero
  /\ positions[call.user] # None
  /\ positions[call.user][1].start_time < positions[call.user][1].last_reward_time
  /\ positions[call.user][1].last_reward_time = now

---------------------------------------------------------------------------
(* The vesting period counter, checked under SpecCalc                      *)

\* the counter of the position is within its bounds
CounterInBounds(position) ==
  /\ position.vesting_current_period >= 0
  /\ position.vesting_current_period <= position.vesting_total_periods
  /\ ~position.has_vesting => position.vesting_current_period = 0

\* the reward calculation gives the same result whatever the counter is
CounterIgnored(position) ==
  \A v \in {0, position.vesting_total_periods} :
    calculate_rewards([position EXCEPT !.vesting_current_period = v],
                      pool[1], now)
      = calculate_rewards(position, pool[1], now)

\* the counter after a step that keeps the position of u
CounterAfter(u, position) ==
  IF PayingClaim(u) /\ position.has_vesting
       /\ position.vesting_current_period < position.vesting_total_periods
  THEN position.vesting_current_period + 1
  ELSE position.vesting_current_period

\* C18: vesting_current_period starts at 0, is incremented by exactly one
\* by each claim_rewards that pays a non-zero amount on a vesting position
\* while it is below vesting_total_periods, however many periods have
\* elapsed, is never changed otherwise, never exceeds
\* vesting_total_periods, stays 0 for positions without vesting, and has no
\* influence on the result of the reward calculation.
C18_VestingCounter ==
  /\ [](\A u \in Users :
          positions[u] # None
            => /\ CounterInBounds(positions[u][1])
               /\ CounterIgnored(positions[u][1]))
  /\ [][\A u \in Users :
          /\ positions[u] = None /\ positions'[u] # None
               => positions'[u][1].vesting_current_period = 0
          /\ positions[u] # None /\ positions'[u] # None
               => positions'[u][1].vesting_current_period
                    = CounterAfter(u, positions[u][1])
       ]_vars

\* a claim has paid on a vesting position of which two of four periods had
\* elapsed, and the counter is 1
C18_Witness ==
  /\ call.op = "claim_rewards"
  /\ call.status = "Ok"
  /\ call.value # Zero
  /\ positions["u1"] # None
  /\ positions["u1"][1].vesting_total_periods = 4
  /\ positions["u1"][1].vesting_current_period = 1
  /\ (now - positions["u1"][1].start_time)
       \div positions["u1"][1].vesting_period_duration >= 2

\* a second claim has paid on a position vesting in one period and the
\* counter has stayed at vesting_total_periods
C18_CapWitness ==
  /\ call.op = "claim_rewards"
  /\ call.status = "Ok"
  /\ call.value # Zero
  /\ ticks = 1
  /\ positions["u1"] # None
  /\ positions["u1"][1].vesting_total_periods = 1
  /\ positions["u1"][1].vesting_current_period = 1
  /\ positions["u1"][1].last_reward_time > CalcStart + LOCK_30_DAYS

---------------------------------------------------------------------------
(* The pool total, checked under Spec                                      *)

AmountOf(u) ==
  IF positions[u] = None THEN Zero ELSE positions[u][1].amount

\* the sum of amount over the stored positions of the given users
RECURSIVE StakedBy(_)
StakedBy(S) ==
  IF S = {} THEN Zero
  ELSE LET u == CHOOSE x \in S : TRUE
       IN  BigAdd(AmountOf(u), StakedBy(S \ {u}))

\* C20: in every reachable state pool.total_staked equals the sum of amount
\* over all stored positions and is not negative, and the checked
\* subtraction in unstake never underflows, after any interleaving of stake,
\* claim_rewards, unstake and admin operations of the users.
C20_TotalIsSum ==
  /\ pool = None => \A u \in Users : positions[u] = None
  /\ pool # None
       => /\ pool[1].total_staked = StakedBy(Users)
          /\ Le(Zero, pool[1].total_staked)
  /\ call.err # "Underflow in total staked"

\* after stakes of both users, a claim and the unstake of u1 with rewards,
\* the total is the amount of the position u2 still holds
C20_Witness ==
  /\ pool # None
  /\ call.op = "unstake"
  /\ call.status = "Ok"
  /\ call.user = "u1"
  /\ call.value # Zero
  /\ positions["u1"] = None
  /\ positions["u2"] # None
  /\ pool[1].total_staked = I128(1000000)

---------------------------------------------------------------------------
(* Exit of a position, checked under Spec                                  *)

\* the position has vesting with periods of no length
ZeroLengthPeriods(position) ==
  /\ position.has_vesting
  /\ position.vesting_period_duration = 0

\* unstake does not refuse the position with LockPeriodNotExpired
ExitAllowed(position) ==
  \/ saturating_sub(now, position.start_time) >= position.lock_period
  \/ EmergencyOn

\* C21, as stated: for every vesting_periods input that stake accepts, the
\* stored position never has has_vesting = true with
\* vesting_period_duration = 0, so whenever the lock period is over or
\* emergency mode is on the reward calculation completes without aborting
\* and no position is permanently stuck.
C21_AsStated ==
  \A u \in Users :
    positions[u] # None
      => /\ ~ZeroLengthPeriods(positions[u][1])
         /\ ExitAllowed(positions[u][1])
              => calculate_rewards(positions[u][1], pool[1], now) # None

\* C21, what the code does: stake accepts Some(n) with n > lock_period and
\* stores vesting_period_duration = lock_period / n = 0; from then on every
\* unstake, claim_rewards and get_pending_rewards of that user aborts in the
\* reward calculation and no step changes or removes the position.
C21_ZeroLengthPeriodsStuck ==
  [][\A u \in Users :
       positions[u] # None /\ ZeroLengthPeriods(positions[u][1])
         => /\ positions'[u] = positions[u]
            /\ call'.user = u
                 /\ call'.op \in {"claim_rewards", "get_pending_rewards"}
                 => call'.status = "Trap"
            /\ call'.user = u /\ call'.op = "unstake"
                 => call'.status \in {"Trap", "Err"}
    ]_vars

\* after time has passed, in emergency mode, the unstake of a position that
\* stake accepted with more vesting periods than seconds of lock aborts in
\* the reward calculation; the position and the staked total stay
C21_Witness ==
  /\ call.op = "unstake"
  /\ call.status = "Trap"
  /\ call.err = "calculate_rewards"
  /\ call.steps = <<"calculate_rewards">>
  /\ ticks = 1
  /\ EmergencyOn
  /\ positions["u2"] # None
  /\ ZeroLengthPeriods(positions["u2"][1])
  /\ positions["u2"][1].vesting_total_periods = LOCK_180_DAYS + 1
  /\ pool[1].total_staked = I128(1000000)

---------------------------------------------------------------------------
(* The order of the steps inside stake, unstake and claim_rewards          *)

\* the steps that are overflow- or underflow-checked arithmetic
CheckedSteps == {"calculate_rewards", "checked_add", "checked_sub"}

\* the steps that write persisted state
WriteSteps ==
  {"set_staking_pool", "set_staking_position", "remove_staking_position"}

\* every checked step of the sequence precedes its transfer and every write
\* follows it
ArithmeticThenTransferThenWrites(steps) ==
  \A i \in DOMAIN steps :
    steps[i] = "transfer" =>
      \A j \in DOMAIN steps :
        /\ steps[j] \in CheckedSteps => j < i
        /\ steps[j] \in WriteSteps => j > i

\* C11, as stated: in stake, unstake and claim_rewards every checked
\* arithmetic step, the computation of the new pool.total_staked included,
\* is completed before the token transfer is issued, and the writes to
\* persisted state follow the transfer.
C11_AsStated ==
  call.op \in {"stake", "unstake", "claim_rewards"}
    => ArithmeticThenTransferThenWrites(call.steps)

\* C11, what the code does: the reward calculation and the payout sum are
\* completed before the transfer and the writes follow it, but the checked
\* update of pool.total_staked is computed after the transfer has been
\* issued, so an overflow there is detected only then.
C11_TotalStakedAfterTransfer ==
  /\ call.op \in {"stake", "unstake", "claim_rewards"}
       => \A i, j \in DOMAIN call.steps :
            call.steps[i] = "transfer" =>
              /\ call.steps[j] = "calculate_rewards" => j < i
              /\ call.steps[j] \in WriteSteps => j > i
              /\ call.steps[j] \in {"checked_add", "checked_sub"}
                   /\ call.op = "stake" => j > i
  /\ call.status = "Trap" /\ call.err = "Overflow in total staked"
       => call.steps = <<"transfer", "checked_add">>

\* a stake panicked on the overflow of pool.total_staked after it had
\* issued its transfer
C11_Witness ==
  /\ call.op = "stake"
  /\ call.status = "Trap"
  /\ call.err = "Overflow in total staked"
  /\ \E i \in DOMAIN call.steps : call.steps[i] = "transfer"

---------------------------------------------------------------------------
(* Properties checked under SpecPool                                       *)

MutatingOps ==
  {"stake", "unstake", "claim_rewards", "update_pool", "set_emergency_mode"}

\* the error results each operation can return
ErrorsOf(op) ==
  CASE op = "stake" ->
         {"EmergencyMode", "InvalidAmount", "InvalidLockPeriod",
          "AlreadyStaked", "InsufficientBalance"}
    [] op = "unstake" -> {"NotStaked", "LockPeriodNotExpired"}
    [] op = "claim_rewards" -> {"NotStaked"}
    [] op = "update_pool" -> {"Unauthorized", "InvalidPoolConfig"}
    [] op = "set_emergency_mode" -> {"Unauthorized"}
    [] OTHER -> {}

\* the step is the call stake(u, u, args) with arguments tried by SpecPool
PoolStakeCall(u, args) ==
  /\ pool # None
  /\ call'.op = "stake"
  /\ call'.user = u
  /\ stake(u, u, args[1], args[2], args[3])

\* the step is the call op(u, u) of unstake or claim_rewards
UserCall(op, u) ==
  /\ pool # None
  /\ call'.op = op
  /\ call'.user = u
  /\ IF op = "unstake" THEN unstake(u, u) ELSE claim_rewards(u, u)

\* C12: whenever stake, unstake, claim_rewards, update_pool or
\* set_emergency_mode returns an error result, the admin, the pool, the
\* emergency flag, all positions and all token balances are as before the
\* call, no event is emitted and nothing is transferred; the error is one of
\* the operation's errors and is returned under its condition (EmergencyMode
\* exactly when the flag is set, InvalidAmount only outside
\* [min_stake, max_stake], InvalidLockPeriod only for an unrecognized
\* period, AlreadyStaked only with a position, InsufficientBalance only with
\* a balance below amount, NotStaked exactly without a position,
\* LockPeriodNotExpired only before expiry with emergency mode off).
C12_ErrorsChangeNothing ==
  [][/\ call'.op \in MutatingOps /\ call'.status = "Err"
          => /\ store' = store
             /\ call'.events = <<>>
             /\ call'.transfers = <<>>
             /\ call'.err \in ErrorsOf(call'.op)
     /\ \A u \in Users :
          \A args \in PoolStakeArgs(u) :
            PoolStakeCall(u, args)
              => /\ Failed("EmergencyMode") <=> EmergencyOn
                 /\ Failed("InvalidAmount") => ~AmountInRange(args[1])
                 /\ Failed("InvalidLockPeriod")
                      => args[2] \notin RecognizedLocks
                 /\ Failed("AlreadyStaked") => positions[u] # None
                 /\ Failed("InsufficientBalance")
                      => Lt(balance[u], args[1])
     /\ \A u \in Users :
          \A op \in {"unstake", "claim_rewards"} :
            UserCall(op, u)
              => /\ Failed("NotStaked") <=> positions[u] = None
                 /\ Failed("LockPeriodNotExpired")
                      => /\ positions[u] # None
                         /\ now - positions[u][1].start_time
                              < positions[u][1].lock_period
                         /\ ~EmergencyOn
    ]_vars

\* a stake was refused because the user's balance was below the amount
C12_Witness ==
  /\ call.op = "stake"
  /\ call.status = "Err"
  /\ call.err = "InsufficientBalance"
  /\ pool # None
  /\ Lt(balance[call.user], pool[1].max_stake)

\* the pool update_pool stores for the given arguments
PoolWith(pl, reward_rate, bonus_multiplier) ==
  [pl EXCEPT
     !.reward_rate = IF reward_rate = None THEN @ ELSE reward_rate[1],
     !.bonus_multiplier =
        IF bonus_multiplier = None THEN @ ELSE bonus_multiplier[1]]

\* the step is the authorized call update_pool(a, args) on an initialized
\* contract
UpdateCall(a, args) ==
  /\ pool # None
  /\ call'.op = "update_pool"
  /\ call'.user = a
  /\ update_pool(a, a, args[1], args[2])

\* the step is the authorized call set_emergency_mode(a, enabled) on an
\* initialized contract
EmergencyCall(a, enabled) ==
  /\ pool # None
  /\ call'.op = "set_emergency_mode"
  /\ call'.user = a
  /\ set_emergency_mode(a, a, enabled)

\* C13: once the contract is initialized, pool.reward_rate,
\* pool.bonus_multiplier and the emergency flag change only in a successful
\* update_pool or set_emergency_mode called with the stored admin's identity;
\* called with any other identity both fail with Unauthorized and change
\* nothing; a successful update_pool changes exactly the provided fields and
\* nothing else, and a negative reward_rate is rejected with
\* InvalidPoolConfig with no field of that call applied.
C13_AdminOnly ==
  [][/\ pool # None
          /\ (pool'[1].reward_rate # pool[1].reward_rate
                \/ pool'[1].bonus_multiplier # pool[1].bonus_multiplier)
          => /\ call'.op = "update_pool"
             /\ call'.status = "Ok"
             /\ call'.user = admin[1]
     /\ pool # None /\ emergency' # emergency
          => /\ call'.op = "set_emergency_mode"
             /\ call'.status = "Ok"
             /\ call'.user = admin[1]
     /\ \A a \in {Admin, "u1"} :
          \A args \in PoolUpdateArgs :
            UpdateCall(a, args)
              => IF a # admin[1]
                 THEN Failed("Unauthorized") /\ store' = store
                 ELSE IF args[1] # None /\ args[1][1].neg
                 THEN Failed("InvalidPoolConfig") /\ store' = store
                 ELSE /\ call'.status = "Ok"
                      /\ pool' = Some(PoolWith(pool[1], args[1], args[2]))
                      /\ UNCHANGED <<admin, emergency, positions, balance>>
     /\ \A a \in {Admin, "u1"} :
          \A enabled \in BOOLEAN :
            EmergencyCall(a, enabled)
              => IF a # admin[1]
                 THEN Failed("Unauthorized") /\ store' = store
                 ELSE /\ call'.status = "Ok"
                      /\ emergency' = Some(enabled)
                      /\ UNCHANGED <<admin, pool, positions, balance>>
    ]_vars

\* an update_pool that provided only the bonus multiplier has succeeded on
\* a pool whose reward rate an earlier call had changed, and another
\* identity's call has been refused
C13_Witness ==
  /\ pool # None
  /\ call.op = "update_pool"
  /\ call.status = "Ok"
  /\ call.user = Admin
  /\ pool[1].reward_rate = Zero
  /\ pool[1].bonus_multiplier = 20
  /\ pool[1].max_stake = I128(3000000)

\* an identity other than the admin was refused by update_pool
C13_UnauthorizedWitness ==
  /\ pool # None
  /\ call.op = "update_pool"
  /\ call.user # admin[1]
  /\ call.status = "Err"
  /\ call.err = "Unauthorized"

\* the step is the call unstake(u, u) by a user who has a position, and it
\* succeeds
UnstakeSucceeds(u) ==
  /\ UnstakeCall(u)
  /\ call'.status = "Ok"

\* what a successful unstake of the position pays for the calculated
\* rewards, with no fee
PaysInFull(u, position, rewards) ==
  /\ call'.value = rewards.claimable_amount
  /\ call'.transfers =
       <<Transfer(Contract, u,
                  BigAdd(position.amount, rewards.claimable_amount))>>
  /\ balance'[u] =
       BigAdd(balance[u], BigAdd(position.amount, rewards.claimable_amount))
  /\ Len(call'.events) = 1
  /\ call'.events[1].topic = "unstaked"
  /\ call'.events[1].data =
       <<position.amount, rewards.claimable_amount, Zero, now>>

\* C15: on every successful unstake the early-withdrawal fee is 0: the user
\* is credited exactly position.amount + claimable_amount, the emitted fee
\* is 0 and the returned value is claimable_amount, emergency-mode
\* withdrawals before lock expiry included.
C15_NoFee ==
  [][\A u \in Users :
       UnstakeSucceeds(u)
         => PaysInFull(u, positions[u][1],
              calculate_rewards(positions[u][1], pool[1], now)[1])
    ]_vars

\* an emergency-mode unstake before lock expiry has succeeded
C15_Witness ==
  /\ call.op = "unstake"
  /\ call.status = "Ok"
  /\ EmergencyOn
  /\ now < LOCK_30_DAYS
  /\ call.events[1].data[1] # Zero
  /\ call.events[1].data[3] = Zero

\* an unstake after lock expiry has paid principal and rewards
C15_ExpiredWitness ==
  /\ call.op = "unstake"
  /\ call.status = "Ok"
  /\ ~EmergencyOn
  /\ call.value # Zero
  /\ call.events[1].data[3] = Zero

\* the lock period of the position is a recognized one and the multiplier
\* is the one of that lock period
LockAndMultiplier(position) ==
  /\ position.lock_period \in RecognizedLocks
  /\ position.reward_multiplier \in {100, 150, 200, 300}
  /\ position.reward_multiplier = MultiplierOf(position.lock_period)

WithinPoolBounds(position) ==
  /\ Le(pool[1].min_stake, position.amount)
  /\ Le(position.amount, pool[1].max_stake)

\* C16, as stated: every stored position, in every reachable state and for
\* every valid pool configuration accepted by initialize, has amount > 0,
\* min_stake <= amount <= max_stake, a recognized lock_period and the
\* reward_multiplier of its lock_period.
C16_AsStated ==
  \A u \in Users :
    positions[u] # None
      => /\ Lt(Zero, positions[u][1].amount)
         /\ WithinPoolBounds(positions[u][1])
         /\ LockAndMultiplier(positions[u][1])

\* C16, what the code guarantees: every stored position has
\* 0 <= min_stake <= amount <= max_stake, a recognized lock_period and the
\* reward_multiplier of its lock_period; the amount is 0 when min_stake is 0
\* and 0 tokens were staked.
C16_PositionsWithinBounds ==
  \A u \in Users :
    positions[u] # None
      => /\ Le(Zero, positions[u][1].amount)
         /\ WithinPoolBounds(positions[u][1])
         /\ LockAndMultiplier(positions[u][1])

\* a position with amount 0 is stored: stake accepted 0 tokens in a pool
\* whose min_stake is 0
C16_Witness ==
  /\ pool # None
  /\ pool[1].min_stake = Zero
  /\ positions["u1"] # None
  /\ positions["u1"][1].amount = Zero
  /\ call.op = "stake"
  /\ call.status = "Ok"

\* the pool's configuration is one initialize accepts
PoolConfigValid(pl) ==
  /\ Le(Zero, pl.min_stake)
  /\ Lt(pl.min_stake, pl.max_stake)
  /\ Le(Zero, pl.reward_rate)
  /\ pl.emergency_withdrawal_fee = 500

ReadOps == {"get_position", "get_pool_info", "get_pending_rewards"}

AdminOps == {"initialize", "update_pool", "set_emergency_mode"}

\* C19: after a successful initialize every reachable state has
\* 0 <= min_stake < max_stake, reward_rate >= 0 and
\* emergency_withdrawal_fee = 500; the pool's token, min_stake, max_stake
\* and fee never change; stake and unstake change no pool field other than
\* total_staked; claim_rewards and the read operations change no pool
\* field; admin operations never change total_staked.
C19_PoolFrame ==
  /\ [](pool # None => PoolConfigValid(pool[1]))
  /\ [][/\ pool = None /\ pool' # None
             => /\ call'.op = "initialize" /\ call'.status = "Ok"
                /\ pool'[1].total_staked = Zero
        /\ pool # None
             => /\ pool' # None
                /\ pool'[1].token = pool[1].token
                /\ pool'[1].min_stake = pool[1].min_stake
                /\ pool'[1].max_stake = pool[1].max_stake
                /\ pool'[1].emergency_withdrawal_fee
                     = pool[1].emergency_withdrawal_fee
                /\ call'.op \in {"stake", "unstake"}
                     => pool'[1] = [pool[1] EXCEPT
                                      !.total_staked = pool'[1].total_staked]
                /\ call'.op \in ReadOps \cup {"claim_rewards"}
                     => pool' = pool
                /\ call'.op \in AdminOps
                     => pool'[1].total_staked = pool[1].total_staked
       ]_vars

\* the admin has changed the reward rate of a pool that holds stakes, and
\* the bounds and the total are still those of before
C19_Witness ==
  /\ pool # None
  /\ call.op = "update_pool"
  /\ call.status = "Ok"
  /\ pool[1].reward_rate = Zero
  /\ pool[1].min_stake = Zero
  /\ pool[1].max_stake = I128(3000000)
  /\ pool[1].total_staked = I128(2001000)

\* the contract holds at least the staked principal
PrincipalBacked ==
  Le(pool[1].total_staked, balance[Contract])

\* C22, as stated: in every reachable state the token balance held by the
\* staking contract is at least pool.total_staked: the reward payouts of
\* claim_rewards and unstake never reduce it below the sum of the principals
\* of the remaining positions.
C22_AsStated ==
  pool # None => PrincipalBacked

\* C22, what the code guarantees: stake and the admin and read operations
\* never take the contract's balance below pool.total_staked; only the
\* payouts of claim_rewards and unstake do, which are limited by the
\* contract's whole balance and not by the part of it that is not principal.
C22_OnlyPayoutsBreakBacking ==
  [][pool # None /\ PrincipalBacked /\ ~PrincipalBacked'
       => /\ call'.op \in {"claim_rewards", "unstake"}
          /\ call'.status = "Ok"
          /\ call'.value # Zero
    ]_vars

\* a claim of u1 has been paid out of the principal of u2: the contract
\* holds less than the staked total
C22_Witness ==
  /\ pool # None
  /\ call.op = "claim_rewards"
  /\ call.status = "Ok"
  /\ call.user = "u1"
  /\ positions["u2"] # None
  /\ Lt(balance[Contract], pool[1].total_staked)
  /\ Lt(balance[Contract], positions["u2"][1].amount)

\* the unstake of the remaining user is blocked: the contract holds less
\* than that user's principal
C22_BlockedWitness ==
  /\ pool # None
  /\ call.op = "unstake"
  /\ call.user = "u2"
  /\ call.status = "Trap"
  /\ call.err = "transfer"
  /\ pool[1].reward_rate = Zero
  /\ Lt(balance[Contract], positions["u2"][1].amount)

---------------------------------------------------------------------------
(* Properties of the cross-chain bridge, checked under SpecBridge          *)

\* the step is process_payload(user, amount, nonce) called by the bridge's
\* admin
PayloadCall(user, amount, nonce) ==
  /\ bridge_admin # None
  /\ call'.op = "process_payload"
  /\ call'.user = user
  /\ process_payload(bridge_admin[1], user, amount, nonce)

\* the nonces a user's payloads were accepted with are 1, 2, 3, ... in this
\* order, up to the stored nonce
AcceptedInOrder(user) ==
  /\ Len(accepted[user]) = stored_nonce(user)
  /\ \A k \in DOMAIN accepted[user] : accepted[user][k] = k

\* C14: in the cross-chain bridge each user's nonce starts at 0;
\* process_payload(user, amount, nonce) is accepted only when nonce is the
\* user's stored nonce plus 1, and get_nonce(user) is that nonce afterwards;
\* any other nonce (a replay, a skipped or a smaller one) aborts with the
\* stored nonce unchanged; so each user's nonce increases by exactly 1 per
\* accepted payload, no nonce is accepted twice and other users' nonces are
\* unaffected.
C14_NonceSequence ==
  /\ [](\A u \in Users : AcceptedInOrder(u))
  /\ [][/\ \A u \in Users :
             \/ stored_nonce(u)' = stored_nonce(u)
             \/ /\ stored_nonce(u)' = stored_nonce(u) + 1
                /\ call'.op = "process_payload"
                /\ call'.status = "Ok"
                /\ call'.user = u
        /\ \A u \in Users, amount \in BridgeAmounts, nonce \in NonceArgs :
             PayloadCall(u, amount, nonce)
               => IF nonce = stored_nonce(u) + 1
                  THEN /\ call'.status = "Ok"
                       /\ stored_nonce(u)' = nonce
                       /\ \A v \in Users \ {u} : nonces'[v] = nonces[v]
                  ELSE /\ call'.status = "Trap"
                       /\ nonces' = nonces
        /\ call'.op = "get_nonce" => call'.value = stored_nonce(call'.user)
       ]_vars

\* two payloads of one user and one of the other have been accepted, and a
\* replay of the first user's last nonce has just been refused
C14_Witness ==
  /\ call.op = "process_payload"
  /\ call.status = "Trap"
  /\ call.err = "Invalid nonce"
  /\ call.user = "u1"
  /\ accepted["u1"] = <<1, 2>>
  /\ accepted["u2"] = <<1>>

====
